---- MODULE Spec2Model ----
(***************************************************************************)
(* A model of the portfolio analysis pipeline of                           *)
(* src/handlers/stock-recommendation.py: the retry wrapper, the key-value  *)
(* reads (paginated scan, batch read), the inference client (chunking,     *)
(* invocation with backoff and prompt truncation), the result store and    *)
(* the orchestration run of lambda_handler.                                *)
(*                                                                         *)
(* Times are in milliseconds.  An exception is modelled by its error code  *)
(* or class name.  A text is a sequence of characters.                     *)
(***************************************************************************)
EXTENDS Integers, Sequences, FiniteSets, TLC

(***************************************************************************)
(* Program constants.                                                      *)
(***************************************************************************)
MAX_RETRIES == 4
BASE_DELAY == 750
BATCH_SIZE == 100
CHUNK_SIZE == 1500

(***************************************************************************)
(* Bounds of the model.                                                    *)
(***************************************************************************)
\* Depth of the interpreter's call stack available to get_inference: the
\* recursive call made at this depth raises RecursionError.
RecursionLimit == 4
\* Longest prompt handed to a stand-alone get_inference call.
MaxPromptLen == 3
\* Length of one longer prompt handed to it.
LongPromptLen == 90

\* Most pages a scan of the portfolio table is served in, and most items of a page.
MaxPages == 3
MaxPageLen == 1
\* Most steps of a run (the aggregate step, the per-entity steps) that the
\* environment makes fail by an error of the store or of the oracle.
MaxFaults == 2
\* Most update_item calls the result store issues when it is driven alone.
MaxStoreWrites == 2
\* Characters a record of a source table serialises to.
RecordChars == 600
\* Most keys of a mapping handed to chunk_data.
MaxKeys == 3
\* Most identifiers handed to a stand-alone batch_get_stock_data call.
MaxBatchIds == 250

RECURSIVE Pow2(_)
Pow2(n) == IF n = 0 THEN 1 ELSE 2 * Pow2(n - 1)

Last(s) == s[Len(s)]
Min(a, b) == IF a < b THEN a ELSE b
Range(s) == {s[i] : i \in 1..Len(s)}
SeqsUpTo(S, n) == UNION {[1..k -> S] : k \in 0..n}
\* the orderings of a finite set
Orderings(S) == {f \in [1..Cardinality(S) -> S] : Range(f) = S}
RECURSIVE Flatten(_)
Flatten(ss) == IF ss = <<>> THEN <<>> ELSE Head(ss) \o Flatten(Tail(ss))

(***************************************************************************)
(* Errors.  ClientError carries a service error code; the oracle's         *)
(* ValidationException may or may not carry the text "token limit          *)
(* exceeded" in its message.                                               *)
(***************************************************************************)
ErrorCodes ==
    {"ProvisionedThroughputExceededException", "ThrottlingException",
     "ModelTimeoutException", "ServiceQuotaExceededException",
     "ValidationException", "AccessDeniedException"}

default_retryable_errors ==
    {"ProvisionedThroughputExceededException", "ThrottlingException"}

retryable_bedrock_errors ==
    {"ThrottlingException", "ModelTimeoutException",
     "ServiceQuotaExceededException"}

\* What one invocation of a wrapped operation can do: return, raise a
\* ClientError with some code, or raise any other exception.
FuncOutcomes ==
    {[kind |-> "return", code |-> "-"], [kind |-> "Exception", code |-> "ConnectionError"]}
      \cup {[kind |-> "ClientError", code |-> c] : c \in ErrorCodes}

FuncTag(o) == IF o.kind = "ClientError" THEN o.code ELSE o.kind

MaxRetriesExceeded == "Max retries (4) exceeded"

\* An observed event: an invocation of the wrapped operation / the oracle
\* (arg: the length of the prompt sent, 0 for the wrapper; out: what the
\* invocation did), or a sleep (arg: its duration).
CallEv(n, out) == [ev |-> "call", arg |-> n, out |-> out]
SleepEv(t) == [ev |-> "sleep", arg |-> t, out |-> "-"]

Calls(tr) == SelectSeq(tr, LAMBDA e : e.ev = "call")

VARIABLES
    \* AWSServiceBase.retry_with_backoff: one call of a wrapped operation
    w_pc,            \* "idle", "loop", "returned", "raised"
    w_retryable,     \* the decorator's retryable_errors
    w_retry_count,   \* the wrapper's retry_count
    w_err,           \* the error raised, "-" if none
    w_trace,         \* invocations and sleeps so far
    \* BedrockManager.get_inference: one top-level call
    inf_pc,          \* "idle", "loop", "returned", "raised"
    prompt,          \* the prompt of the innermost active call
    retry_count,     \* retry_count of the innermost active call
    depth,           \* number of enclosing get_inference calls
    inf_value,       \* the value returned, NoValue if none
    inf_err,         \* the error raised, "-" if none
    inf_trace,       \* oracle invocations and sleeps so far
    observe,         \* whether inf_trace is recorded
    \* the backing store
    portfolio_pages, \* the portfolio table as its scan serves it: a sequence of pages
    tables,          \* per source category, the identifiers that have a record
    risk_table,      \* portfolioprofile: the userIds that have a risk profile
    rec_table,       \* portfolio_recommendation: identifier -> record, NoItem if none
    bias_table,      \* portfolio_bias: userId -> record, for the userIds that have one
    writes,          \* the update_item calls issued: table and key
    clock,           \* the time, advanced by every update_item
    store_last,      \* the latest call of a RecommendationManager method, or
                     \* the notification handler's read of the bias record
    \* DynamoDBManager.get_stock_ids: one call
    scan_pc,         \* "idle", "loop", "returned", "raised"
    scan_acc,        \* the local list stock_ids
    last_evaluated_key,
    scan_log,        \* the ExclusiveStartKey of every scan issued (NoCursor: none)
    stock_ids,       \* the list returned
    \* DynamoDBManager.batch_get_stock_data: one call
    batch_pc,        \* "idle", "loop", "returned", "raised"
    batch_table,     \* table_name
    batch_ids,       \* the argument stock_ids
    batch_i,         \* the loop variable i
    batch_results,   \* the dict results
    batch_log,       \* the Keys of every batch_get_item issued
    \* BedrockManager.chunk_data: one call
    chunk_pc,        \* "idle", "called", "done"
    chunk_input,     \* the argument data: its (key, value) pairs in insertion order
    chunk_result,    \* the list returned, or the error raised
    \* lambda_handler: one run
    pc,              \* where the run is
    portfolio_data,  \* process_portfolio's portfolio_data, as far as built
    portfolio_analysis,
    idx,             \* how many of stock_ids the for loop has processed
    results, successful_count, error_count,
    response,        \* what lambda_handler returns
    risk_profile_cache,  \* DynamoDBManager._risk_profile
    risk_fetches,    \* how often _fetch_risk_profile has run
    invoked,         \* the steps (an identifier, or "portfolio") that invoked the oracle
    faults           \* per step, what went wrong for it in its environment

wrapperVars == <<w_pc, w_retryable, w_retry_count, w_err, w_trace>>
inferVars == <<inf_pc, prompt, retry_count, depth, inf_value, inf_err,
               inf_trace, observe>>
dbVars == <<portfolio_pages, tables, risk_table, rec_table, bias_table, writes, clock,
           store_last>>
scanVars == <<scan_pc, scan_acc, last_evaluated_key, scan_log, stock_ids>>
batchVars == <<batch_pc, batch_table, batch_ids, batch_i, batch_results, batch_log>>
chunkVars == <<chunk_pc, chunk_input, chunk_result>>
runVars == <<pc, portfolio_data, portfolio_analysis, idx, results, successful_count,
            error_count, response, risk_profile_cache, risk_fetches, invoked, faults>>
vars == <<wrapperVars, inferVars, dbVars, scanVars, batchVars, chunkVars, runVars>>
exceptWrapper == <<inferVars, dbVars, scanVars, batchVars, chunkVars, runVars>>
exceptInfer == <<wrapperVars, dbVars, scanVars, batchVars, chunkVars, runVars>>
exceptScan == <<wrapperVars, inferVars, dbVars, batchVars, chunkVars, runVars>>
exceptBatch == <<wrapperVars, inferVars, dbVars, scanVars, chunkVars, runVars>>
exceptChunk == <<wrapperVars, inferVars, dbVars, scanVars, batchVars, runVars>>

(***************************************************************************)
(* AWSServiceBase.retry_with_backoff                                       *)
(***************************************************************************)
\* a backoff that does not double
wait_time_constant(rc) == BASE_DELAY * 2

\* wait_time = BASE_DELAY * (2 ** retry_count), retry_count already advanced
wait_time(rc) == BASE_DELAY * Pow2(rc)

\* the classification at line 100
wrapper_retries(code, rc) == code \in w_retryable /\ rc < MAX_RETRIES

IdleWrapper ==
    /\ w_pc = "idle" /\ w_retryable = {} /\ w_retry_count = 0
    /\ w_err = "-" /\ w_trace = <<>>

\* One pass of the while loop: the wrapped operation is invoked and does o.
wrapper_attempt(o) ==
    /\ w_pc = "loop"
    /\ w_retry_count < MAX_RETRIES
    /\ IF o.kind = "return"
         THEN /\ w_pc' = "returned"
              /\ w_trace' = Append(w_trace, CallEv(0, FuncTag(o)))
              /\ UNCHANGED <<w_retry_count, w_err>>
       ELSE IF o.kind = "ClientError" /\ wrapper_retries(o.code, w_retry_count)
         THEN /\ w_retry_count' = w_retry_count + 1
              /\ w_trace' = w_trace \o <<CallEv(0, FuncTag(o)), SleepEv(wait_time(w_retry_count + 1))>>
              /\ UNCHANGED <<w_pc, w_err>>
         ELSE /\ w_pc' = "raised"
              /\ w_err' = o.code
              /\ w_trace' = Append(w_trace, CallEv(0, FuncTag(o)))
              /\ UNCHANGED w_retry_count
    /\ UNCHANGED w_retryable

\* The loop condition fails: raise Exception("Max retries (4) exceeded").
wrapper_exhausted ==
    /\ w_pc = "loop"
    /\ ~(w_retry_count < MAX_RETRIES)
    /\ w_pc' = "raised"
    /\ w_err' = MaxRetriesExceeded
    /\ UNCHANGED <<w_retryable, w_retry_count, w_trace>>

(***************************************************************************)
(* The oracle (bedrock.invoke_model) and its replies.                      *)
(***************************************************************************)
\* JSON scalars
Null == [t |-> "null", s |-> "", n |-> 0]
Str(x) == [t |-> "str", s |-> x, n |-> 0]
Num(k) == [t |-> "num", s |-> "", n |-> k]

NoValue == [none |-> TRUE]
Malformed == [malformed |-> TRUE]

recommendation_fields == {"recommendation", "confidence_score", "reasoning"}
bias_fields == {"bias_score", "volatility_risk", "sector_concentration", "recommendation"}

\* JSON objects the oracle may answer with: complete ones (in and out of the
\* documented ranges), ones with a field missing, ones with a null field.
GoodRecommendation ==
    [recommendation |-> Str("BUY"), confidence_score |-> Num(80), reasoning |-> Str("r")]
OddRecommendation ==
    [recommendation |-> Str("MAYBE"), confidence_score |-> Num(150), reasoning |-> Str("r")]
GoodBias ==
    [bias_score |-> Num(3), volatility_risk |-> Str("low"),
     sector_concentration |-> Str("tech"), recommendation |-> Str("diversify")]
OtherBias ==
    [bias_score |-> Num(11), volatility_risk |-> Str("high"),
     sector_concentration |-> Str("energy"), recommendation |-> Str("rebalance")]

Without(obj, f) == [k \in (DOMAIN obj) \ {f} |-> obj[k]]
WithNull(obj, f) == [obj EXCEPT ![f] = Null]

RecommendationReplies ==
    {GoodRecommendation, OddRecommendation}
      \cup {Without(GoodRecommendation, f) : f \in recommendation_fields}
      \cup {WithNull(GoodRecommendation, f) : f \in recommendation_fields}

BiasReplies ==
    {GoodBias, OtherBias}
      \cup {Without(GoodBias, f) : f \in bias_fields}
      \cup {WithNull(GoodBias, f) : f \in bias_fields}

\* What one invoke_model call can do.  tl: the error message contains
\* "token limit exceeded".  A reply's text either parses as JSON (json: the
\* value) or does not (json: Malformed).
OracleErrors ==
    {[kind |-> "ClientError", code |-> c, tl |-> b, json |-> NoValue] :
        c \in ErrorCodes, b \in BOOLEAN}
      \cup {[kind |-> "Exception", code |-> "ConnectionError", tl |-> FALSE, json |-> NoValue]}

OracleReply(v) == [kind |-> "reply", code |-> "-", tl |-> FALSE, json |-> v]

OracleOutcomes(replies) ==
    OracleErrors \cup {OracleReply(v) : v \in replies \cup {Malformed}}

(***************************************************************************)
(* BedrockManager.get_inference                                            *)
(***************************************************************************)
\* The largest power of two below k, for k >= 2.
RECURSIVE BinadeBelow(_)
BinadeBelow(k) == IF k <= 2 THEN 1 ELSE 2 * BinadeBelow((k + 1) \div 2)

\* int(n * 0.7) in double precision.  The double nearest to 0.7 is
\* 0.7 - 2^-52 / 5, so the exact product falls short of 7n/10 by n * 2^-52 / 5.
\* When 7n/10 is a whole number k, the product is rounded to a double: to k
\* if the shortfall is at most half the spacing of the doubles below k, and
\* otherwise to the double below k, which int() truncates to k - 1.  With
\* 2^e < k <= 2^(e+1) the spacing is 2^(e-52): the product is rounded down
\* when 4k > 7 * 2^e.  When 7n/10 is not whole, int() gives its floor.
int_of_0_7_times(n) ==
    LET k == (n * 7) \div 10 IN
    IF n % 10 = 0 /\ k > 0 /\ 4 * k > 7 * BinadeBelow(k) THEN k - 1 ELSE k

\* prompt[:int(len(prompt)*0.7)]
truncated_prompt(p) == SubSeq(p, 1, int_of_0_7_times(Len(p)))

\* line 274
is_token_limit(o) == o.code = "ValidationException" /\ o.tl

\* a classification that allows one retry only
inference_retries_once(code, rc) == code \in retryable_bedrock_errors /\ rc < 1

\* line 279
inference_retries(code, rc) == code \in retryable_bedrock_errors /\ rc < MAX_RETRIES

Observed(tr) == IF observe THEN tr ELSE inf_trace

IdleInference ==
    /\ inf_pc = "idle" /\ prompt = <<>> /\ retry_count = 0 /\ depth = 0
    /\ inf_value = NoValue /\ inf_err = "-" /\ inf_trace = <<>>

\* get_inference(p) is entered from outside
StartInference(p) ==
    /\ inf_pc' = "loop" /\ prompt' = p /\ retry_count' = 0 /\ depth' = 0
    /\ inf_value' = NoValue /\ inf_err' = "-" /\ inf_trace' = <<>>
    /\ UNCHANGED observe

OutcomeTag(o) ==
    IF o.kind = "reply" THEN (IF o.json = Malformed THEN "malformed" ELSE "reply")
    ELSE IF is_token_limit(o) THEN "token_limit"
    ELSE IF o.kind = "ClientError" /\ o.code \in retryable_bedrock_errors THEN "retryable"
    ELSE "fatal"

\* a parse that takes any text for JSON
parses_anything(v) == TRUE

\* json.loads(text) returns: the reply's text is JSON
parses(v) == v # Malformed

\* One pass of the while loop of the innermost call: the oracle is invoked
\* with the current prompt and does o.
invoke_model(o) ==
    /\ inf_pc = "loop"
    /\ retry_count < MAX_RETRIES
    /\ IF o.kind = "reply"
         THEN IF ~parses(o.json)
                THEN \* json.loads raises; logged and re-raised at 286-288
                     /\ inf_pc' = "raised"
                     /\ inf_err' = "JSONDecodeError"
                     /\ inf_trace' = Observed(Append(inf_trace, CallEv(Len(prompt), OutcomeTag(o))))
                     /\ UNCHANGED <<prompt, retry_count, depth, inf_value>>
                ELSE /\ inf_pc' = "returned"
                     /\ inf_value' = o.json
                     /\ inf_trace' = Observed(Append(inf_trace, CallEv(Len(prompt), OutcomeTag(o))))
                     /\ UNCHANGED <<prompt, retry_count, depth, inf_err>>
       ELSE IF o.kind = "ClientError" /\ is_token_limit(o)
         THEN \* return self.get_inference(truncated_prompt, model_id)
              /\ inf_trace' = Observed(Append(inf_trace, CallEv(Len(prompt), OutcomeTag(o))))
              /\ IF depth + 1 > RecursionLimit
                   THEN /\ inf_pc' = "raised"
                        /\ inf_err' = "RecursionError"
                        /\ UNCHANGED <<prompt, retry_count, depth, inf_value>>
                   ELSE /\ prompt' = truncated_prompt(prompt)
                        /\ retry_count' = 0
                        /\ depth' = depth + 1
                        /\ UNCHANGED <<inf_pc, inf_err, inf_value>>
       ELSE IF o.kind = "ClientError" /\ inference_retries(o.code, retry_count)
         THEN /\ retry_count' = retry_count + 1
              /\ inf_trace' = Observed(inf_trace \o
                     <<CallEv(Len(prompt), OutcomeTag(o)), SleepEv(wait_time(retry_count + 1))>>)
              /\ UNCHANGED <<inf_pc, prompt, depth, inf_value, inf_err>>
         ELSE \* raise
              /\ inf_pc' = "raised"
              /\ inf_err' = o.code
              /\ inf_trace' = Observed(Append(inf_trace, CallEv(Len(prompt), OutcomeTag(o))))
              /\ UNCHANGED <<prompt, retry_count, depth, inf_value>>
    /\ UNCHANGED observe

\* The loop condition fails: raise Exception("Max retries (4) exceeded").
inference_exhausted ==
    /\ inf_pc = "loop"
    /\ ~(retry_count < MAX_RETRIES)
    /\ inf_pc' = "raised"
    /\ inf_err' = MaxRetriesExceeded
    /\ UNCHANGED <<prompt, retry_count, depth, inf_value, inf_trace, observe>>

(***************************************************************************)
(* The backing store.                                                      *)
(***************************************************************************)
Entities == {"A", "B", "C"}
Categories == {"fundamentals", "technicals", "earnings"}

NoCursor == 0

\* table.scan of the portfolio table: the page after the cursor, and the
\* cursor of that page unless it is the last one.
Scan(cursor) ==
    [Items |-> portfolio_pages[cursor + 1],
     LastEvaluatedKey |-> IF cursor + 1 < Len(portfolio_pages) THEN cursor + 1 ELSE NoCursor]

\* The record of an identifier in a source table.
Item(table, id) == [stockId |-> id, source |-> table]

\* batch_get_item on one table: the records of the keys that have one.
BatchGetItem(table, keys) == {Item(table, k) : k \in Range(keys) \cap tables[table]}

Users == {"user-1a2b3c4d", "user-5e6f7a8b"}
default_user == "user-default"

NoItem == [none |-> TRUE]
NoCall == [op |-> "-", key |-> "-", arg |-> NoValue, err |-> "-"]

EmptyTables ==
    /\ rec_table = [e \in Entities |-> NoItem]
    /\ bias_table = [u \in {} |-> NoItem]
    /\ writes = <<>> /\ clock = 1 /\ store_last = NoCall

IdleDb ==
    /\ portfolio_pages = <<<<>>>> /\ tables = [c \in Categories |-> {}]
    /\ risk_table = {} /\ EmptyTables

(***************************************************************************)
(* DynamoDBManager.get_stock_ids                                           *)
(***************************************************************************)
\* a return that keeps the duplicates
list_of_scanned(acc) == {acc}

\* list(set(stock_ids)): the distinct identifiers, in some order
list_of_set(acc) == Orderings(Range(acc))

IdleScan ==
    /\ scan_pc = "idle" /\ scan_acc = <<>> /\ last_evaluated_key = NoCursor
    /\ scan_log = <<>> /\ stock_ids = <<>>

\* One pass of the while loop: one table.scan, which answers or raises.
scan_page(ok) ==
    /\ scan_pc = "loop"
    /\ scan_log' = Append(scan_log, last_evaluated_key)
    /\ IF ok
         THEN LET scanned == Scan(last_evaluated_key)
                  acc == scan_acc \o scanned.Items
              IN  /\ scan_acc' = acc
                  /\ last_evaluated_key' = scanned.LastEvaluatedKey
                  /\ IF scanned.LastEvaluatedKey = NoCursor
                       THEN /\ scan_pc' = "returned"
                            /\ stock_ids' \in list_of_set(acc)
                       ELSE UNCHANGED <<scan_pc, stock_ids>>
         ELSE /\ scan_pc' = "raised"
              /\ UNCHANGED <<scan_acc, last_evaluated_key, stock_ids>>

(***************************************************************************)
(* DynamoDBManager.batch_get_stock_data                                    *)
(***************************************************************************)
\* a slice that is one key short
batch_short(ids, i) == SubSeq(ids, i + 1, Min(i + BATCH_SIZE - 1, Len(ids)))

\* stock_ids[i:i + self.BATCH_SIZE]
batch(ids, i) == SubSeq(ids, i + 1, Min(i + BATCH_SIZE, Len(ids)))

NoResults == [k \in {} |-> NoValue]

\* results[item['stockId']] = sanitize_data(item), for every item
merge(res, items) ==
    [k \in DOMAIN res \cup {it.stockId : it \in items} |->
        IF \E it \in items : it.stockId = k
          THEN CHOOSE it \in items : it.stockId = k
          ELSE res[k]]

IdleBatch ==
    /\ batch_pc = "idle" /\ batch_table = "-" /\ batch_ids = <<>> /\ batch_i = 0
    /\ batch_results = NoResults /\ batch_log = <<>>

StartBatch(table, ids) ==
    /\ batch_pc' = "loop" /\ batch_table' = table /\ batch_ids' = ids /\ batch_i' = 0
    /\ batch_results' = NoResults /\ batch_log' = <<>>

\* One pass of the for loop: one batch_get_item, which answers or raises.
batch_read(ok) ==
    /\ batch_pc = "loop"
    /\ batch_i < Len(batch_ids)
    /\ batch_log' = Append(batch_log, batch(batch_ids, batch_i))
    /\ IF ok
         THEN /\ batch_results' =
                    merge(batch_results, BatchGetItem(batch_table, batch(batch_ids, batch_i)))
              /\ batch_i' = batch_i + BATCH_SIZE
              /\ UNCHANGED batch_pc
         ELSE /\ batch_pc' = "raised"
              /\ UNCHANGED <<batch_results, batch_i>>
    /\ UNCHANGED <<batch_table, batch_ids>>

\* The range is used up: return results.
batch_return ==
    /\ batch_pc = "loop"
    /\ ~(batch_i < Len(batch_ids))
    /\ batch_pc' = "returned"
    /\ UNCHANGED <<batch_table, batch_ids, batch_i, batch_results, batch_log>>

(***************************************************************************)
(* BedrockManager.chunk_data.  A Python str is the sequence of its         *)
(* characters; the values of the mapping are strings.  json.dumps and      *)
(* json.loads are modelled on these.                                       *)
(***************************************************************************)
DQ == "dq"   \* the double quote character
Ellipsis == <<".", ".", ".">>

\* json.dumps of a str: the characters between double quotes
json_dumps(str) == <<DQ>> \o str \o <<DQ>>

JSONDecodeError == [error |-> "JSONDecodeError"]

\* json.loads of a text: the str it denotes, if it is one JSON string and
\* nothing else; otherwise JSONDecodeError is raised
json_loads(text) ==
    IF /\ Len(text) >= 2
       /\ text[1] = DQ
       /\ text[Len(text)] = DQ
       /\ \A i \in 2..(Len(text) - 1) : text[i] # DQ
      THEN SubSeq(text, 2, Len(text) - 1)
      ELSE JSONDecodeError

\* json.dumps of a dict, given as its (key, value) pairs:
\* {"k": "v", "k2": "v2"}
RECURSIVE json_dumps_pairs(_)
json_dumps_pairs(pairs) ==
    IF pairs = <<>> THEN <<>>
    ELSE json_dumps(Head(pairs)[1]) \o <<":", " ">> \o json_dumps(Head(pairs)[2])
           \o (IF Tail(pairs) = <<>> THEN <<>> ELSE <<",", " ">> \o json_dumps_pairs(Tail(pairs)))

json_dumps_dict(pairs) == <<"{">> \o json_dumps_pairs(pairs) \o <<"}">>

\* the for loop of chunk_data over the remaining items
RECURSIVE chunk_loop(_, _, _, _)
chunk_loop(items, chunks, current_chunk, current_size) ==
    IF items = <<>>
      THEN [err |-> "-",
            chunks |-> IF current_chunk # <<>> THEN Append(chunks, current_chunk) ELSE chunks]
      ELSE LET key == Head(items)[1]
               dumped == json_dumps(Head(items)[2])
               oversized == Len(dumped) > CHUNK_SIZE
               value_str == IF oversized THEN SubSeq(dumped, 1, CHUNK_SIZE) \o Ellipsis
                            ELSE dumped
               value == IF oversized THEN json_loads(value_str) ELSE Head(items)[2]
               full == current_size + Len(value_str) > CHUNK_SIZE
           IN  IF value = JSONDecodeError
                 THEN [err |-> "JSONDecodeError", chunks |-> <<>>]
                 ELSE chunk_loop(Tail(items),
                                 IF full THEN Append(chunks, current_chunk) ELSE chunks,
                                 Append(IF full THEN <<>> ELSE current_chunk, <<key, value>>),
                                 (IF full THEN 0 ELSE current_size) + Len(value_str))

chunk_data(data) == chunk_loop(data, <<>>, <<>>, 0)

NoChunks == [err |-> "-", chunks |-> <<>>]

IdleChunk == chunk_pc = "idle" /\ chunk_input = <<>> /\ chunk_result = NoChunks

\* chunk_data(chunk_input) runs to its end
call_chunk_data ==
    /\ chunk_pc = "called"
    /\ chunk_pc' = "done"
    /\ chunk_result' = chunk_data(chunk_input)
    /\ UNCHANGED chunk_input

(***************************************************************************)
(* RecommendationManager: store_recommendation and store_bias_details.     *)
(***************************************************************************)
\* a validation that accepts null fields
fields_present(data, required_fields) == \A field \in required_fields : field \in DOMAIN data

\* DataValidationMixin.validate_required_fields
validate_required_fields(data, required_fields) ==
    \A field \in required_fields : field \in DOMAIN data /\ data[field] # Null

\* Decimal(str(x)) raises InvalidOperation unless x reads as a number
is_decimal(x) == x.t = "num"

\* the record after SET recommendation, confidence_score, reasoning, timestamp
recommendation_item(recommendation, t) ==
    [recommendation |-> recommendation["recommendation"],
     confidence_score |-> recommendation["confidence_score"],
     reasoning |-> recommendation["reasoning"],
     timestamp |-> t]

\* the record after SET bias_score, volatility_risk, sector_concentration,
\* recommendation, timestamp
bias_item(bias, t) ==
    [bias_score |-> bias["bias_score"],
     volatility_risk |-> bias["volatility_risk"],
     sector_concentration |-> bias["sector_concentration"],
     recommendation |-> bias["recommendation"],
     timestamp |-> t]

\* a write that leaves a record that exists as it is
InsertIfAbsent(table, key, item) ==
    [k \in DOMAIN table \cup {key} |-> IF k \in DOMAIN table THEN table[k] ELSE item]

\* update_item(Key, SET ...): the record of the key is created or its
\* attributes are overwritten
Upsert(table, key, item) ==
    [k \in DOMAIN table \cup {key} |-> IF k = key THEN item ELSE table[k]]

ScanRaises == [raise |-> TRUE]

\* risk_profile_table.scan(Limit=1): the first record the scan meets, if any.
\* A scan walks the table in the order of its keys' hashes, so the first
\* record is a function of the table's contents.
FirstScanned(table) == CHOOSE u \in table : TRUE
ScanRiskProfile == IF risk_table = {} THEN {NoItem} ELSE {[userId |-> FirstScanned(risk_table)]}

\* a store whose update is applied also when update_item raises
store_recommendation_applied(stock_id, recommendation, write_ok) ==
    /\ IF ~validate_required_fields(recommendation, recommendation_fields)
            \/ ~is_decimal(recommendation["confidence_score"])
         THEN /\ store_last' = [op |-> "store_recommendation", key |-> stock_id,
                                arg |-> recommendation, err |-> "Invalid recommendation data"]
              /\ UNCHANGED <<rec_table, writes, clock>>
         ELSE /\ writes' = Append(writes, [table |-> "portfolio_recommendation", key |-> stock_id])
              /\ clock' = clock + 1
              /\ rec_table' = [rec_table EXCEPT
                                  ![stock_id] = recommendation_item(recommendation, clock)]
              /\ store_last' = [op |-> "store_recommendation", key |-> stock_id,
                                arg |-> recommendation,
                                err |-> IF write_ok THEN "-" ELSE "ClientError(UpdateItem)"]
    /\ UNCHANGED <<portfolio_pages, tables, risk_table, bias_table>>

\* store_recommendation(table_name, stock_id, recommendation); write_ok: the
\* update_item call succeeds.  The outcome is left in store_last.
store_recommendation(stock_id, recommendation, write_ok) ==
    /\ IF ~validate_required_fields(recommendation, recommendation_fields)
         THEN /\ store_last' = [op |-> "store_recommendation", key |-> stock_id,
                                arg |-> recommendation, err |-> "Invalid recommendation data"]
              /\ UNCHANGED <<rec_table, writes, clock>>
       ELSE IF ~is_decimal(recommendation["confidence_score"])
         THEN /\ store_last' = [op |-> "store_recommendation", key |-> stock_id,
                                arg |-> recommendation, err |-> "InvalidOperation"]
              /\ UNCHANGED <<rec_table, writes, clock>>
       ELSE /\ writes' = Append(writes, [table |-> "portfolio_recommendation", key |-> stock_id])
            /\ clock' = clock + 1
            /\ IF write_ok
                 THEN /\ rec_table' = [rec_table EXCEPT
                                          ![stock_id] = recommendation_item(recommendation, clock)]
                      /\ store_last' = [op |-> "store_recommendation", key |-> stock_id,
                                        arg |-> recommendation, err |-> "-"]
                 ELSE /\ store_last' = [op |-> "store_recommendation", key |-> stock_id,
                                        arg |-> recommendation, err |-> "ClientError(UpdateItem)"]
                      /\ UNCHANGED rec_table
    /\ UNCHANGED <<portfolio_pages, tables, risk_table, bias_table>>

\* store_bias_details(table_name, bias); profile: what the scan of the risk
\* profile table answers, or ScanRaises; write_ok: the update_item call succeeds.
store_bias_details(bias, profile, write_ok) ==
    /\ IF ~validate_required_fields(bias, bias_fields)
         THEN /\ store_last' = [op |-> "store_bias_details", key |-> "-",
                                arg |-> bias, err |-> "Invalid bias data"]
              /\ UNCHANGED <<bias_table, writes, clock>>
       ELSE IF profile = ScanRaises
         THEN /\ store_last' = [op |-> "store_bias_details", key |-> "-",
                                arg |-> bias, err |-> "ClientError(Scan)"]
              /\ UNCHANGED <<bias_table, writes, clock>>
       ELSE LET user_id == IF profile # NoItem THEN profile.userId ELSE default_user IN
            /\ writes' = Append(writes, [table |-> "portfolio_bias", key |-> user_id])
            /\ clock' = clock + 1
            /\ IF write_ok
                 THEN /\ bias_table' = Upsert(bias_table, user_id, bias_item(bias, clock))
                      /\ store_last' = [op |-> "store_bias_details", key |-> user_id,
                                        arg |-> bias, err |-> "-"]
                 ELSE /\ store_last' = [op |-> "store_bias_details", key |-> user_id,
                                        arg |-> bias, err |-> "ClientError(UpdateItem)"]
                      /\ UNCHANGED bias_table
    /\ UNCHANGED <<portfolio_pages, tables, risk_table, rec_table>>

(***************************************************************************)
(* The risk profile processor (stock-risk-profile-processor.py).           *)
(***************************************************************************)
\* The contents of the questionnaire files that are uploaded.
CsvContents == {"answers-1", "answers-2"}

\* generate_consistent_userid: "user-" and the first 8 hex digits of the md5
\* of the content; contents that differ get identities that differ.
generate_consistent_userid(csv_content) ==
    IF csv_content = "answers-1" THEN "user-1a2b3c4d" ELSE "user-5e6f7a8b"

\* store_risk_profile: put_item under the key userId
store_risk_profile(id) == risk_table' = risk_table \cup {id}

\* process_csv_file on a file of the given content.  has_responses: a row
\* after the header has two columns; stored: neither the oracle call of
\* generate_risk_profile nor put_item raises.
process_csv_file(csv_content, has_responses, stored) ==
    /\ IF has_responses /\ stored
         THEN store_risk_profile(generate_consistent_userid(csv_content))
         ELSE UNCHANGED risk_table
    /\ UNCHANGED <<portfolio_pages, tables, rec_table, bias_table, writes, clock, store_last>>

(***************************************************************************)
(* The notification handler (stock-alert.py): how it finds the bias record.*)
(***************************************************************************)
\* risk_profile_table.scan(Limit=1)['Items']: a list of at most one record
ScanLimit1Items ==
    IF risk_table = {} THEN <<>> ELSE <<[userId |-> FirstScanned(risk_table)]>>

\* DynamoDBHandler.get_bias_data: the item of the key, {} if there is none
get_bias_data(user_id) ==
    IF user_id \in DOMAIN bias_table THEN bias_table[user_id] ELSE NoItem

\* lambda_handler, lines 217-221: response.get('Items', [{}])[0] raises
\* IndexError on a list without items; otherwise the bias record is read
\* under the userId of the first item.  The outcome is left in store_last.
alert_read_bias ==
    /\ LET items == ScanLimit1Items IN
       IF Len(items) = 0
         THEN store_last' = [op |-> "get_bias_data", key |-> "-", arg |-> NoValue,
                             err |-> "IndexError"]
         ELSE store_last' = [op |-> "get_bias_data", key |-> items[1].userId,
                             arg |-> get_bias_data(items[1].userId), err |-> "-"]
    /\ UNCHANGED <<portfolio_pages, tables, risk_table, rec_table, bias_table, writes, clock>>

(***************************************************************************)
(* The market data handler (stock-insight.py): StockAnalyzer's updates of  *)
(* the trend table and of the fundamentals table.                          *)
(***************************************************************************)
\* table.update_item(Key, UpdateExpression=SET ...) with no
\* ConditionExpression: the record is created if there is none
update_item(table, stock_id) == [tables EXCEPT ![table] = @ \cup {stock_id}]

\* StockAnalyzer.update_stock_data for one stock: _update_trend_table, then
\* _update_fundamentals_table.  trend_ok, fundamentals_ok: nothing raises up
\* to and in that table's update_item.  The outcome is left in store_last.
update_stock_data(stock_id, trend_ok, fundamentals_ok) ==
    /\ IF ~trend_ok
         THEN /\ store_last' = [op |-> "_update_trend_table", key |-> stock_id,
                                arg |-> NoValue, err |-> "ClientError(UpdateItem)"]
              /\ UNCHANGED tables
       ELSE IF ~fundamentals_ok
         THEN /\ store_last' = [op |-> "_update_fundamentals_table", key |-> stock_id,
                                arg |-> NoValue, err |-> "ClientError(UpdateItem)"]
              /\ tables' = update_item("technicals", stock_id)
       ELSE /\ store_last' = [op |-> "_update_fundamentals_table", key |-> stock_id,
                              arg |-> NoValue, err |-> "-"]
            /\ tables' = [tables EXCEPT !["technicals"] = @ \cup {stock_id},
                                        !["fundamentals"] = @ \cup {stock_id}]
    /\ UNCHANGED <<portfolio_pages, risk_table, rec_table, bias_table, writes, clock>>

(***************************************************************************)
(* The market data handler's lambda_handler in scheduled mode: the         *)
(* tickers of the portfolio table, then update_stock_data for each.        *)
(***************************************************************************)
\* What the scheduled mode leaves alone.
exceptScheduled ==
    <<wrapperVars, inferVars, batchVars, chunkVars, portfolio_pages, risk_table,
      rec_table, bias_table, clock, scan_pc, scan_acc, last_evaluated_key, scan_log,
      portfolio_data, portfolio_analysis, successful_count, error_count,
      risk_profile_cache, risk_fetches, invoked, faults>>

\* get_primary_key_values: 'key_values': list(set(key_values))
key_values(items) == Orderings(Range(items))

\* an exception handler that turns the failure into an unsuccessful result
update_stock_data_returns(stock_id, error) ==
    [caught |-> TRUE, result |-> [success |-> FALSE, message |-> error]]

\* update_stock_data, lines 271-273: except Exception: log and raise
update_stock_data_except(stock_id, error) ==
    [caught |-> FALSE, result |-> [success |-> FALSE, message |-> error]]

\* lambda_handler: results.append(result) and the next pass of the loop, or
\* the except clause at the end of the handler
scheduled_loop_rest(outcome) ==
    IF outcome.caught
      THEN /\ results' = Append(results, outcome.result)
           /\ idx' = idx + 1
           /\ pc' = "insight_trend"
           /\ UNCHANGED response
      ELSE /\ response' = [statusCode |-> 500, error |-> outcome.result.message]
           /\ pc' = "done"
           /\ UNCHANGED <<results, idx>>

\* lambda_handler: get_primary_key_values("portfolio") returns or raises
scheduled_scan(ok, tickers) ==
    /\ pc = "insight_scan"
    /\ IF ok
         THEN /\ stock_ids' = tickers
              /\ pc' = "insight_trend"
              /\ UNCHANGED response
         ELSE /\ response' = [statusCode |-> 500, error |-> "ClientError(Scan)"]
              /\ pc' = "done"
              /\ UNCHANGED stock_ids
    /\ UNCHANGED <<idx, results, tables, writes, store_last>>

\* update_stock_data for the next ticker, up to and with _update_trend_table.
\* outcome: "-" if nothing raises, else what raises: the market data source
\* has no history ("ValueError"), or update_item fails.
scheduled_trend(outcome) ==
    /\ pc = "insight_trend"
    /\ idx < Len(stock_ids)
    /\ LET ticker == stock_ids[idx + 1] IN
       /\ store_last' = [op |-> "_update_trend_table", key |-> ticker,
                         arg |-> NoValue, err |-> outcome]
       /\ writes' = IF outcome = "ValueError" THEN writes
                    ELSE Append(writes, [table |-> "technicals", key |-> ticker])
       /\ IF outcome = "-"
            THEN /\ tables' = update_item("technicals", ticker)
                 /\ pc' = "insight_fundamentals"
                 /\ UNCHANGED <<idx, results, response>>
            ELSE /\ scheduled_loop_rest(update_stock_data_except(ticker, outcome))
                 /\ UNCHANGED tables
    /\ UNCHANGED stock_ids

\* update_stock_data for the same ticker: _update_fundamentals_table and the
\* return of the result
scheduled_fundamentals(update_ok) ==
    /\ pc = "insight_fundamentals"
    /\ LET ticker == stock_ids[idx + 1] IN
       /\ writes' = Append(writes, [table |-> "fundamentals", key |-> ticker])
       /\ IF update_ok
            THEN /\ tables' = update_item("fundamentals", ticker)
                 /\ store_last' = [op |-> "_update_fundamentals_table", key |-> ticker,
                                   arg |-> NoValue, err |-> "-"]
                 /\ scheduled_loop_rest([caught |-> TRUE,
                        result |-> [success |-> TRUE, message |-> "Data updated successfully"]])
            ELSE /\ store_last' = [op |-> "_update_fundamentals_table", key |-> ticker,
                                   arg |-> NoValue, err |-> "ClientError(UpdateItem)"]
                 /\ scheduled_loop_rest(
                        update_stock_data_except(ticker, "ClientError(UpdateItem)"))
                 /\ UNCHANGED tables
    /\ UNCHANGED stock_ids

\* lambda_handler: the loop is over; the counts and the response
scheduled_return ==
    /\ pc = "insight_trend"
    /\ ~(idx < Len(stock_ids))
    /\ response' = [statusCode |-> 200,
                    total_processed |-> Len(results),
                    successful |-> Len(SelectSeq(results, LAMBDA r : r.success)),
                    failed |-> Len(SelectSeq(results, LAMBDA r : ~r.success))]
    /\ pc' = "done"
    /\ UNCHANGED <<stock_ids, idx, results, tables, writes, store_last>>

(***************************************************************************)
(* StockAnalysisOrchestrator and lambda_handler: one run.                  *)
(***************************************************************************)
\* The text json.dumps(x, indent=2) puts into a prompt, as one symbol.
Dump(x) == [json |-> x]

\* Characters of json.dumps(portfolio_data, indent=2), at the least: the
\* records of the tables, RecordChars characters each, without the keys and
\* the punctuation around them.
DumpChars(data) ==
    LET tables_read == DOMAIN data IN
    IF tables_read = {} THEN 0
    ELSE RecordChars * (Cardinality(DOMAIN data.fundamentals)
                          + (IF "technicals" \in tables_read
                               THEN Cardinality(DOMAIN data.technicals) ELSE 0))

\* BedrockManager.build_analysis_prompt: the template with the four blocks
build_analysis_prompt(stock_data) ==
    <<"Analyze the following stock data. Fundamentals:", Dump(stock_data.fundamentals),
      "Technicals:", Dump(stock_data.technicals),
      "Earnings:", Dump(stock_data.earnings),
      "RiskProfile:", Dump(stock_data.riskprofile),
      "Provide the recommendation in JSON format">>

\* BedrockManager.analyze_portfolio_bias_prompt
analyze_portfolio_bias_prompt(data) ==
    <<"Analyze the following stock portfolio:", Dump(data),
      "Provide the analysis in JSON format">>

\* DynamoDBManager.get_stock_data: the record, or None
get_stock_data(table, stock_id) ==
    IF stock_id \in tables[table] THEN Item(table, stock_id) ELSE NoItem

\* a check that forgets the earnings record
missing_data_of_two(stock_id) ==
    \E c \in {"fundamentals", "technicals"} : get_stock_data(c, stock_id) = NoItem

\* not all([fundamentals, technicals, earnings])
missing_data(stock_id) == \E c \in Categories : get_stock_data(c, stock_id) = NoItem

\* a result that reports success whatever happened
StockResult_success(stock_id, success, error, recommendation) ==
    [stock_id |-> stock_id, success |-> TRUE, error |-> error,
     recommendation |-> recommendation]

StockResult(stock_id, success, error, recommendation) ==
    [stock_id |-> stock_id, success |-> success, error |-> error,
     recommendation |-> recommendation]

PortfolioError(error) == [success |-> FALSE, error |-> error, bias |-> NoValue]
PortfolioBias(bias) == [success |-> TRUE, error |-> "-", bias |-> bias]

NoResponse == [statusCode |-> 0]

IdleRun ==
    /\ pc = "idle" /\ portfolio_data = NoValue /\ portfolio_analysis = NoValue
    /\ idx = 0 /\ results = <<>> /\ successful_count = 0 /\ error_count = 0
    /\ response = NoResponse /\ risk_profile_cache = NoItem /\ risk_fetches = 0
    /\ invoked = {} /\ faults = <<>>

Fault(step, kind) == Upsert(faults, step, kind)

ResetInference ==
    /\ inf_pc' = "idle" /\ prompt' = <<>> /\ retry_count' = 0 /\ depth' = 0
    /\ inf_value' = NoValue /\ inf_err' = "-" /\ inf_trace' = <<>>
    /\ UNCHANGED observe

ResetBatch ==
    /\ batch_pc' = "idle" /\ batch_table' = "-" /\ batch_ids' = <<>> /\ batch_i' = 0
    /\ batch_results' = NoResults /\ batch_log' = <<>>

\* an exception handler that lets the exception leave process_stock
process_stock_propagates(stock_id, error) ==
    [caught |-> FALSE, result |-> StockResult(stock_id, FALSE, error, NoValue)]

\* process_stock, lines 420-422: except Exception
process_stock_except(stock_id, error) ==
    [caught |-> TRUE, result |-> StockResult(stock_id, FALSE, error, NoValue)]

\* lambda_handler, lines 482-490: except Exception
handler_except(error) == [statusCode |-> 500, error |-> error]

\* lambda_handler, lines 461-468: the rest of the loop body, given the
\* outcome of process_stock
loop_body_rest(outcome) ==
    IF outcome.caught
      THEN /\ results' = Append(results, outcome.result)
           /\ IF outcome.result.success
                THEN successful_count' = successful_count + 1 /\ UNCHANGED error_count
                ELSE error_count' = error_count + 1 /\ UNCHANGED successful_count
           /\ idx' = idx + 1
           /\ pc' = "loop"
           /\ UNCHANGED response
      ELSE /\ response' = handler_except(outcome.result.error)
           /\ pc' = "done"
           /\ UNCHANGED <<results, successful_count, error_count, idx>>

\* lambda_handler, lines 448-452: get_stock_ids has returned or raised
after_get_stock_ids ==
    /\ pc = "enumerate"
    /\ scan_pc \in {"returned", "raised"}
    /\ IF scan_pc = "raised"
         THEN /\ response' = handler_except("ClientError(Scan)")
              /\ pc' = "done"
              /\ UNCHANGED batchVars
         ELSE \* process_portfolio: the first batch_get_stock_data
              /\ StartBatch("fundamentals", stock_ids)
              /\ pc' = "portfolio_fundamentals"
              /\ UNCHANGED response
    /\ UNCHANGED <<portfolio_data, portfolio_analysis, idx, results, successful_count,
                   error_count, risk_profile_cache, risk_fetches, invoked, faults>>
    /\ UNCHANGED <<wrapperVars, inferVars, dbVars, scanVars, chunkVars>>

\* process_portfolio, lines 426-431: a batch_get_stock_data has returned or raised
after_batch_get ==
    /\ pc \in {"portfolio_fundamentals", "portfolio_technicals"}
    /\ batch_pc \in {"returned", "raised"}
    /\ IF batch_pc = "raised"
         THEN /\ portfolio_analysis' = PortfolioError("ClientError(BatchGetItem)")
              /\ faults' = Fault("portfolio", "read")
              /\ pc' = "loop"
              /\ ResetBatch
              /\ UNCHANGED <<portfolio_data, inferVars>>
       ELSE IF pc = "portfolio_fundamentals"
         THEN /\ portfolio_data' = [fundamentals |-> batch_results]
              /\ StartBatch("technicals", stock_ids)
              /\ pc' = "portfolio_technicals"
              /\ UNCHANGED <<portfolio_analysis, faults, inferVars>>
         ELSE LET data == [fundamentals |-> portfolio_data.fundamentals,
                           technicals |-> batch_results]
              IN  /\ portfolio_data' = data
                  /\ StartInference(analyze_portfolio_bias_prompt(data))
                  /\ pc' = "portfolio_inference"
                  /\ ResetBatch
                  /\ UNCHANGED <<portfolio_analysis, faults>>
    /\ UNCHANGED <<idx, results, successful_count, error_count, response,
                   risk_profile_cache, risk_fetches, invoked>>
    /\ UNCHANGED <<wrapperVars, dbVars, scanVars, chunkVars>>

\* process_portfolio, lines 434-444: get_inference has returned or raised;
\* store_bias_details
after_portfolio_inference(profile, write_ok) ==
    /\ pc = "portfolio_inference"
    /\ inf_pc \in {"returned", "raised"}
    /\ IF inf_pc = "raised"
         THEN /\ portfolio_analysis' = PortfolioError(inf_err)
              /\ faults' = Fault("portfolio", "oracle")
              /\ UNCHANGED dbVars
         ELSE /\ store_bias_details(inf_value, profile, write_ok)
              /\ portfolio_analysis' =
                    IF store_last'.err = "-" THEN PortfolioBias(inf_value)
                    ELSE PortfolioError(store_last'.err)
              /\ faults' =
                    IF store_last'.err = "-" THEN faults
                    ELSE IF store_last'.err = "Invalid bias data" THEN Fault("portfolio", "reply")
                    ELSE IF store_last'.err = "ClientError(Scan)" THEN Fault("portfolio", "read")
                    ELSE Fault("portfolio", "write")
    /\ pc' = "loop"
    /\ ResetInference
    /\ UNCHANGED <<portfolio_data, idx, results, successful_count, error_count, response,
                   risk_profile_cache, risk_fetches, invoked>>
    /\ UNCHANGED <<wrapperVars, scanVars, batchVars, chunkVars>>

\* lambda_handler, line 459-460, and process_stock, lines 401-406:
\* _gather_stock_data, the prompt, and the entry into get_inference.
\* query_raises: the first of the three queries that raises, "-" if none;
\* profile: what _fetch_risk_profile's scan answers, or ScanRaises.
process_stock_gather(query_raises, profile) ==
    /\ pc = "loop"
    /\ idx < Len(stock_ids)
    /\ LET stock_id == stock_ids[idx + 1] IN
       IF query_raises # "-"
         THEN /\ loop_body_rest(process_stock_except(stock_id, "ClientError(Query)"))
              /\ faults' = Fault(stock_id, "read")
              /\ UNCHANGED <<risk_profile_cache, risk_fetches, inferVars>>
       ELSE IF missing_data(stock_id)
         THEN /\ loop_body_rest([caught |-> TRUE,
                                 result |-> StockResult(stock_id, FALSE, "Missing data", NoValue)])
              /\ faults' = Fault(stock_id, "missing")
              /\ UNCHANGED <<risk_profile_cache, risk_fetches, inferVars>>
       ELSE IF risk_profile_cache = NoItem /\ profile = ScanRaises
         THEN /\ loop_body_rest(process_stock_except(stock_id, "ClientError(Scan)"))
              /\ faults' = Fault(stock_id, "read")
              /\ risk_fetches' = risk_fetches + 1
              /\ UNCHANGED <<risk_profile_cache, inferVars>>
         ELSE LET riskprofile == IF risk_profile_cache = NoItem THEN profile
                                 ELSE risk_profile_cache
                  stock_data == [fundamentals |-> get_stock_data("fundamentals", stock_id),
                                 technicals |-> get_stock_data("technicals", stock_id),
                                 earnings |-> get_stock_data("earnings", stock_id),
                                 riskprofile |-> riskprofile]
              IN  /\ risk_profile_cache' = riskprofile
                  /\ risk_fetches' = IF risk_profile_cache = NoItem THEN risk_fetches + 1
                                     ELSE risk_fetches
                  /\ StartInference(build_analysis_prompt(stock_data))
                  /\ pc' = "stock_inference"
                  /\ UNCHANGED <<idx, results, successful_count, error_count, response, faults>>
    /\ UNCHANGED <<portfolio_data, portfolio_analysis, invoked>>
    /\ UNCHANGED <<wrapperVars, dbVars, scanVars, batchVars, chunkVars>>

\* process_stock, lines 406-418: get_inference has returned or raised;
\* store_recommendation; then the rest of the loop body
process_stock_store(write_ok) ==
    /\ pc = "stock_inference"
    /\ inf_pc \in {"returned", "raised"}
    /\ LET stock_id == stock_ids[idx + 1] IN
       IF inf_pc = "raised"
         THEN /\ loop_body_rest(process_stock_except(stock_id, inf_err))
              /\ faults' = Fault(stock_id, "oracle")
              /\ UNCHANGED dbVars
         ELSE /\ store_recommendation(stock_id, inf_value, write_ok)
              /\ IF store_last'.err = "-"
                   THEN /\ loop_body_rest([caught |-> TRUE,
                               result |-> StockResult(stock_id, TRUE, "-", inf_value)])
                        /\ UNCHANGED faults
                   ELSE /\ loop_body_rest(process_stock_except(stock_id, store_last'.err))
                        /\ faults' = Fault(stock_id,
                              IF store_last'.err = "ClientError(UpdateItem)" THEN "write"
                              ELSE "reply")
    /\ ResetInference
    /\ UNCHANGED <<portfolio_data, portfolio_analysis, risk_profile_cache, risk_fetches,
                   invoked>>
    /\ UNCHANGED <<wrapperVars, scanVars, batchVars, chunkVars>>

\* lambda_handler, lines 470-480: the loop is over
handler_return ==
    /\ pc = "loop"
    /\ ~(idx < Len(stock_ids))
    /\ response' = [statusCode |-> 200,
                    total_processed |-> Len(stock_ids),
                    successful |-> successful_count,
                    failed |-> error_count,
                    portfolio_analysis |-> portfolio_analysis,
                    results |-> results]
    /\ pc' = "done"
    /\ UNCHANGED <<portfolio_data, portfolio_analysis, idx, results, successful_count,
                   error_count, risk_profile_cache, risk_fetches, invoked, faults>>
    /\ UNCHANGED <<wrapperVars, inferVars, dbVars, scanVars, batchVars, chunkVars>>

\* The step of the run that is calling get_inference.
CurrentStep == IF pc = "portfolio_inference" THEN "portfolio" ELSE stock_ids[idx + 1]

(***************************************************************************)
(* Specification of the retry wrapper alone: one wrapped operation, called *)
(* once, with either classifier.                                           *)
(***************************************************************************)
InitRetry ==
    /\ w_pc = "loop"
    /\ w_retryable \in {default_retryable_errors, retryable_bedrock_errors}
    /\ w_retry_count = 0 /\ w_err = "-" /\ w_trace = <<>>
    /\ IdleInference /\ observe = TRUE
    /\ IdleDb /\ IdleScan /\ IdleBatch /\ IdleChunk /\ IdleRun

WrapperAttempt == (\E o \in FuncOutcomes : wrapper_attempt(o)) /\ UNCHANGED exceptWrapper
WrapperExhausted == wrapper_exhausted /\ UNCHANGED exceptWrapper

NextRetry == WrapperAttempt \/ WrapperExhausted

SpecRetry == InitRetry /\ [][NextRetry]_vars

(***************************************************************************)
(* Specification of get_inference alone: one top-level call.               *)
(***************************************************************************)
SamplePrompt(n) == [i \in 1..n |-> i]

InitInfer ==
    /\ IdleWrapper
    /\ inf_pc = "loop"
    /\ prompt \in {SamplePrompt(n) : n \in 0..MaxPromptLen \cup {LongPromptLen}}
    /\ retry_count = 0 /\ depth = 0
    /\ inf_value = NoValue /\ inf_err = "-" /\ inf_trace = <<>>
    /\ observe = TRUE
    /\ IdleDb /\ IdleScan /\ IdleBatch /\ IdleChunk /\ IdleRun

InvokeModel ==
    (\E o \in OracleOutcomes({GoodRecommendation}) : invoke_model(o)) /\ UNCHANGED exceptInfer
InferenceExhausted == inference_exhausted /\ UNCHANGED exceptInfer

(***************************************************************************)
(* Specification of the two retry loops side by side: the body of          *)
(* get_inference's try block (invoke_model, then json.loads) as an         *)
(* operation under retry_with_backoff(retryable_bedrock_errors), and       *)
(* get_inference itself, both meeting the same outcomes of the oracle,     *)
(* none of them a token-limit error.                                       *)
(***************************************************************************)
\* What lines 256-270 do as a wrapped operation when the oracle does o.
as_operation(o) ==
    IF o.kind = "reply"
      THEN IF o.json = Malformed THEN [kind |-> "Exception", code |-> "JSONDecodeError"]
           ELSE [kind |-> "return", code |-> "-"]
      ELSE [kind |-> o.kind, code |-> o.code]

InitShared ==
    /\ w_pc = "loop" /\ w_retryable = retryable_bedrock_errors
    /\ w_retry_count = 0 /\ w_err = "-" /\ w_trace = <<>>
    /\ inf_pc = "loop"
    /\ prompt \in {SamplePrompt(n) : n \in 1..MaxPromptLen}
    /\ retry_count = 0 /\ depth = 0
    /\ inf_value = NoValue /\ inf_err = "-" /\ inf_trace = <<>>
    /\ observe = TRUE
    /\ IdleDb /\ IdleScan /\ IdleBatch /\ IdleChunk /\ IdleRun

SharedAttempt ==
    /\ \E o \in {x \in OracleOutcomes(RecommendationReplies) : ~is_token_limit(x)} :
          wrapper_attempt(as_operation(o)) /\ invoke_model(o)
    /\ UNCHANGED <<dbVars, scanVars, batchVars, chunkVars, runVars>>
SharedExhausted ==
    /\ wrapper_exhausted /\ inference_exhausted
    /\ UNCHANGED <<dbVars, scanVars, batchVars, chunkVars, runVars>>

NextShared == SharedAttempt \/ SharedExhausted

SpecShared == InitShared /\ [][NextShared]_vars

(***************************************************************************)
(* Specification of get_stock_ids alone: one call, on any portfolio table  *)
(* of up to MaxPages pages.                                                *)
(***************************************************************************)
InitScan ==
    /\ IdleWrapper /\ IdleInference /\ observe = TRUE /\ IdleBatch /\ IdleChunk /\ IdleRun
    /\ portfolio_pages \in SeqsUpTo(SeqsUpTo(Entities, MaxPageLen), MaxPages) \ {<<>>}
    /\ tables = [c \in Categories |-> {}]
    /\ risk_table = {} /\ EmptyTables
    /\ scan_pc = "loop" /\ scan_acc = <<>> /\ last_evaluated_key = NoCursor
    /\ scan_log = <<>> /\ stock_ids = <<>>

ScanPage ==
    (\E ok \in BOOLEAN : scan_page(ok)) /\ UNCHANGED exceptScan

NextScan == ScanPage

SpecScan == InitScan /\ [][NextScan]_vars

(***************************************************************************)
(* Specification of batch_get_stock_data alone: one call, on the           *)
(* identifiers 1..n, of which those in some residue class have a record.   *)
(***************************************************************************)
InitBatch ==
    /\ IdleWrapper /\ IdleInference /\ observe = TRUE /\ IdleScan /\ IdleChunk /\ IdleRun
    /\ portfolio_pages = <<<<>>>>
    /\ risk_table = {} /\ EmptyTables
    /\ \E m \in 1..3, r \in 0..1 :
          tables = [c \in Categories |-> {k \in 1..MaxBatchIds : k % m = r}]
    /\ batch_pc = "loop" /\ batch_table = "fundamentals"
    /\ batch_ids \in {[k \in 1..n |-> k] : n \in 0..MaxBatchIds}
    /\ batch_i = 0 /\ batch_results = NoResults /\ batch_log = <<>>

BatchRead ==
    (\E ok \in BOOLEAN : batch_read(ok)) /\ UNCHANGED exceptBatch
BatchReturn == batch_return /\ UNCHANGED exceptBatch

NextBatch == BatchRead \/ BatchReturn

SpecBatch == InitBatch /\ [][NextBatch]_vars

NextInfer == InvokeModel \/ InferenceExhausted

SpecInfer == InitInfer /\ [][NextInfer]_vars

(***************************************************************************)
(* Specification of chunk_data alone: one call, on any mapping of up to    *)
(* MaxKeys keys whose values are strings of a few lengths around and below *)
(* CHUNK_SIZE.                                                             *)
(***************************************************************************)
StrOfLen(n) == [i \in 1..n |-> "a"]
SampleKey(i) == <<"k", ToString(i)>>
SampleLengths == {0, CHUNK_SIZE \div 2, CHUNK_SIZE - 4, CHUNK_SIZE - 2, CHUNK_SIZE - 1}

InitChunk ==
    /\ IdleWrapper /\ IdleInference /\ observe = TRUE /\ IdleDb /\ IdleScan /\ IdleBatch /\ IdleRun
    /\ chunk_pc = "called"
    /\ \E n \in 0..MaxKeys : \E len \in [1..n -> SampleLengths] :
          chunk_input = [i \in 1..n |-> <<SampleKey(i), StrOfLen(len[i])>>]
    /\ chunk_result = NoChunks

ChunkData == call_chunk_data /\ UNCHANGED exceptChunk

NextChunk == ChunkData

SpecChunk == InitChunk /\ [][NextChunk]_vars

(***************************************************************************)
(* Specification of the result store alone: calls of its two methods     *)
(* issuing up to MaxStoreWrites writes, with any of the oracle's JSON objects, on a risk       *)
(* profile table of zero, one or two records.                              *)
(***************************************************************************)
InitStore ==
    /\ IdleWrapper /\ IdleInference /\ observe = TRUE /\ IdleScan /\ IdleBatch /\ IdleChunk /\ IdleRun
    /\ portfolio_pages = <<<<>>>> /\ tables = [c \in Categories |-> {}]
    /\ risk_table \in SUBSET Users
    /\ EmptyTables

StoreRecommendation ==
    /\ Len(writes) < MaxStoreWrites
    /\ \E stock_id \in Entities, recommendation \in RecommendationReplies, write_ok \in BOOLEAN :
          store_recommendation(stock_id, recommendation, write_ok)
    /\ UNCHANGED <<wrapperVars, inferVars, scanVars, batchVars, chunkVars, runVars>>

StoreBiasDetails ==
    /\ Len(writes) < MaxStoreWrites
    /\ \E bias \in BiasReplies, profile \in ScanRiskProfile \cup {ScanRaises}, write_ok \in BOOLEAN :
          store_bias_details(bias, profile, write_ok)
    /\ UNCHANGED <<wrapperVars, inferVars, scanVars, batchVars, chunkVars, runVars>>

NextStore == StoreRecommendation \/ StoreBiasDetails

SpecStore == InitStore /\ [][NextStore]_vars

(***************************************************************************)
(* Specification of the risk profile table and the bias table over         *)
(* uploads of questionnaire files and the bias writes of analysis runs,    *)
(* beginning with no profile.                                              *)
(***************************************************************************)
InitProfiles ==
    /\ IdleWrapper /\ IdleInference /\ observe = TRUE /\ IdleScan /\ IdleBatch /\ IdleChunk /\ IdleRun
    /\ portfolio_pages = <<<<>>>> /\ tables = [c \in Categories |-> {}]
    /\ risk_table = {}
    /\ EmptyTables

ProcessCsvFile ==
    /\ \E csv_content \in CsvContents, has_responses \in BOOLEAN, stored \in BOOLEAN :
          process_csv_file(csv_content, has_responses, stored)
    /\ UNCHANGED <<wrapperVars, inferVars, scanVars, batchVars, chunkVars, runVars>>

NextProfiles == ProcessCsvFile \/ StoreBiasDetails

SpecProfiles == InitProfiles /\ [][NextProfiles]_vars

(***************************************************************************)
(* Specification of the bias record written by analysis runs and read by   *)
(* the notification handler, on a risk profile table that does not change: *)
(* it holds no record, one or two.                                         *)
(***************************************************************************)
InitAlert ==
    /\ IdleWrapper /\ IdleInference /\ observe = TRUE /\ IdleScan /\ IdleBatch /\ IdleChunk /\ IdleRun
    /\ portfolio_pages = <<<<>>>> /\ tables = [c \in Categories |-> {}]
    /\ risk_table \in SUBSET Users
    /\ EmptyTables

AlertReadBias ==
    /\ alert_read_bias
    /\ UNCHANGED <<wrapperVars, inferVars, scanVars, batchVars, chunkVars, runVars>>

NextAlert == StoreBiasDetails \/ AlertReadBias

SpecAlert == InitAlert /\ [][NextAlert]_vars

(***************************************************************************)
(* Specification of the market data handler's updates, on trend and        *)
(* fundamentals tables that hold records of any of the entities.           *)
(***************************************************************************)
InitInsight ==
    /\ IdleWrapper /\ IdleInference /\ observe = TRUE /\ IdleScan /\ IdleBatch /\ IdleChunk /\ IdleRun
    /\ portfolio_pages = <<<<>>>>
    /\ \E f \in SUBSET Entities, t \in SUBSET Entities :
          tables = [c \in Categories |-> IF c = "fundamentals" THEN f
                                        ELSE IF c = "technicals" THEN t ELSE {}]
    /\ risk_table = {} /\ EmptyTables

UpdateStockData ==
    /\ \E stock_id \in Entities, trend_ok \in BOOLEAN, fundamentals_ok \in BOOLEAN :
          update_stock_data(stock_id, trend_ok, fundamentals_ok)
    /\ UNCHANGED <<wrapperVars, inferVars, scanVars, batchVars, chunkVars, runVars>>

NextInsight == UpdateStockData

SpecInsight == InitInsight /\ [][NextInsight]_vars

(***************************************************************************)
(* Specification of the market data handler in scheduled mode: the         *)
(* portfolio table holds A, B and C on two pages, the trend and            *)
(* fundamentals tables hold records of any of them.                        *)
(***************************************************************************)
InitScheduled ==
    /\ IdleWrapper /\ IdleInference /\ observe = TRUE /\ IdleScan /\ IdleBatch /\ IdleChunk
    /\ portfolio_pages = <<<<"A", "B">>, <<"B", "C">>>>
    /\ \E f \in SUBSET Entities, t \in SUBSET Entities :
          tables = [c \in Categories |-> IF c = "fundamentals" THEN f
                                        ELSE IF c = "technicals" THEN t ELSE {}]
    /\ risk_table = {} /\ EmptyTables
    /\ pc = "insight_scan" /\ portfolio_data = NoValue /\ portfolio_analysis = NoValue
    /\ idx = 0 /\ results = <<>> /\ successful_count = 0 /\ error_count = 0
    /\ response = NoResponse /\ risk_profile_cache = NoItem /\ risk_fetches = 0
    /\ invoked = {} /\ faults = <<>>

ScheduledScan ==
    /\ \E ok \in BOOLEAN, tickers \in key_values(Flatten(portfolio_pages)) :
          scheduled_scan(ok, tickers)
    /\ UNCHANGED exceptScheduled
ScheduledTrend ==
    /\ \E outcome \in {"-", "ValueError", "ClientError(UpdateItem)"} : scheduled_trend(outcome)
    /\ UNCHANGED exceptScheduled
ScheduledFundamentals ==
    /\ \E update_ok \in BOOLEAN : scheduled_fundamentals(update_ok)
    /\ UNCHANGED exceptScheduled
ScheduledReturn == scheduled_return /\ UNCHANGED exceptScheduled

NextScheduled == ScheduledScan \/ ScheduledTrend \/ ScheduledFundamentals \/ ScheduledReturn

SpecScheduled == InitScheduled /\ [][NextScheduled]_vars

(***************************************************************************)
(* Specification of one run of lambda_handler.  The portfolio table holds  *)
(* A, B and C on two pages; A and C have all their source records, B has   *)
(* all or lacks one; there is a risk profile or none; the recommendation   *)
(* table holds a record of an earlier run for B and C.  The environment    *)
(* makes at most MaxFaults steps of the run fail.                          *)
(***************************************************************************)
OldRecommendation ==
    [recommendation |-> Str("HOLD"), confidence_score |-> Num(50), reasoning |-> Str("old"),
     timestamp |-> 0]

RunRecommendationReplies ==
    {GoodRecommendation, Without(GoodRecommendation, "confidence_score")}
RunBiasReplies == {GoodBias, WithNull(GoodBias, "bias_score")}
RunOracleErrors ==
    {o \in OracleErrors : o.code \in {"ThrottlingException", "ValidationException"}}

InitRun ==
    /\ IdleWrapper /\ IdleInference /\ observe = FALSE /\ IdleBatch /\ IdleChunk
    /\ portfolio_pages = <<<<"A", "B">>, <<"B", "C">>>>
    /\ \E absent \in {{}} \cup {{c} : c \in Categories} :
          tables = [c \in Categories |-> IF c \in absent THEN {"A", "C"} ELSE Entities]
    /\ risk_table \in {{}, {"user-1a2b3c4d"}}
    /\ rec_table = [e \in Entities |-> IF e = "A" THEN NoItem ELSE OldRecommendation]
    /\ bias_table = [u \in {} |-> NoItem]
    /\ writes = <<>> /\ clock = 1 /\ store_last = NoCall
    /\ scan_pc = "loop" /\ scan_acc = <<>> /\ last_evaluated_key = NoCursor
    /\ scan_log = <<>> /\ stock_ids = <<>>
    /\ pc = "enumerate" /\ portfolio_data = NoValue /\ portfolio_analysis = NoValue
    /\ idx = 0 /\ results = <<>> /\ successful_count = 0 /\ error_count = 0
    /\ response = NoResponse /\ risk_profile_cache = NoItem /\ risk_fetches = 0
    /\ invoked = {} /\ faults = <<>>

\* The environment may still make a step fail.
MayFail == Cardinality({k \in DOMAIN faults : faults[k] # "missing"}) < MaxFaults
Outcomes == IF MayFail THEN BOOLEAN ELSE {TRUE}
Profiles == ScanRiskProfile \cup (IF MayFail THEN {ScanRaises} ELSE {})

RunScanPage == pc = "enumerate" /\ ScanPage
RunBatchRead ==
    /\ pc \in {"portfolio_fundamentals", "portfolio_technicals"}
    /\ (\E ok \in Outcomes : batch_read(ok))
    /\ UNCHANGED exceptBatch
RunBatchReturn ==
    /\ pc \in {"portfolio_fundamentals", "portfolio_technicals"}
    /\ BatchReturn
RunInvokeModel ==
    /\ pc \in {"portfolio_inference", "stock_inference"}
    /\ \E o \in (IF MayFail THEN RunOracleErrors \cup {OracleReply(Malformed)} ELSE {})
               \cup {OracleReply(v) : v \in
                       {w \in (IF pc = "portfolio_inference" THEN RunBiasReplies
                                ELSE RunRecommendationReplies) :
                          MayFail \/ validate_required_fields(w, DOMAIN w \cup
                             (IF pc = "portfolio_inference" THEN bias_fields
                              ELSE recommendation_fields))}} :
          invoke_model(o)
    /\ invoked' = invoked \cup {CurrentStep}
    /\ UNCHANGED <<pc, portfolio_data, portfolio_analysis, idx, results, successful_count,
                   error_count, response, risk_profile_cache, risk_fetches, faults>>
    /\ UNCHANGED <<wrapperVars, dbVars, scanVars, batchVars, chunkVars>>
RunInferenceExhausted ==
    /\ pc \in {"portfolio_inference", "stock_inference"}
    /\ InferenceExhausted

AfterGetStockIds == after_get_stock_ids
AfterBatchGet == after_batch_get
AfterPortfolioInference ==
    \E profile \in Profiles, write_ok \in Outcomes :
        after_portfolio_inference(profile, write_ok)
ProcessStockGather ==
    \E query_raises \in {"-"} \cup (IF MayFail THEN Categories ELSE {}), profile \in Profiles :
        process_stock_gather(query_raises, profile)
ProcessStockStore == \E write_ok \in Outcomes : process_stock_store(write_ok)
HandlerReturn == handler_return

NextRun ==
    \/ RunScanPage
    \/ AfterGetStockIds
    \/ RunBatchRead
    \/ RunBatchReturn
    \/ AfterBatchGet
    \/ RunInvokeModel
    \/ RunInferenceExhausted
    \/ AfterPortfolioInference
    \/ ProcessStockGather
    \/ ProcessStockStore
    \/ HandlerReturn

SpecRun == InitRun /\ [][NextRun]_vars

(***************************************************************************)
(* Specification of the retry policy at both of its sites: either one call *)
(* of a wrapped operation or one top-level call of get_inference.          *)
(***************************************************************************)
SpecPolicy == (InitRetry \/ InitInfer) /\ [][NextRetry \/ NextInfer]_vars

(***************************************************************************)
(* Specification of get_inference both called alone, its invocations and   *)
(* sleeps logged, and called by a run.                                     *)
(***************************************************************************)
SpecInference == (InitInfer \/ InitRun) /\ [][(pc = "idle" /\ NextInfer) \/ NextRun]_vars

\* CLAIMS

\* Every invocation recorded in tr raised the token-limit error.
AllTokenLimit(tr) == \A i \in 1..Len(tr) : tr[i].ev = "call" => tr[i].out = "token_limit"
NoTokenLimit(tr) == \A i \in 1..Len(tr) : tr[i].out # "token_limit"

\* C4: when every oracle invocation raises the token-limit error, get_inference
\* called with a non-empty prompt never invokes the oracle with an empty prompt
\* (it stops with a terminal error at a minimal prompt length instead).
C4_NeverTruncatesToEmpty ==
    (inf_trace # <<>> /\ inf_trace[1].arg > 0 /\ AllTokenLimit(inf_trace))
        => \A i \in 1..Len(inf_trace) : inf_trace[i].arg > 0

\* Invocations and sleeps alternate, beginning with an invocation, and the
\* sleep after the k-th invocation lasts BASE_DELAY * 2^k.
ExponentialSchedule(tr) ==
    \A k \in 1..Len(tr) :
        IF k % 2 = 1 THEN tr[k].ev = "call"
        ELSE tr[k].ev = "sleep" /\ tr[k].arg = BASE_DELAY * Pow2(k \div 2)

\* C5: an operation under the retry policy that fails only with retryable
\* errors is invoked at most MAX_RETRIES (4) times, and the sleep between the
\* k-th and the (k+1)-th invocation is BASE_DELAY * 2^k (1.5 s, 3 s, 6 s),
\* each double the one before; this holds of the wrapper and, as long as no
\* token-limit error occurs, of the loop of get_inference.
C5_RetryBoundAndSchedule ==
    /\ Len(Calls(w_trace)) <= MAX_RETRIES
    /\ ExponentialSchedule(w_trace)
    /\ NoTokenLimit(inf_trace) =>
          /\ Len(Calls(inf_trace)) <= MAX_RETRIES
          /\ ExponentialSchedule(inf_trace)

\* C5 witness: the wrapped operation failed with retryable errors until the
\* budget was spent.
C5_Witness ==
    /\ w_pc = "raised" /\ w_err = MaxRetriesExceeded
    /\ Len(Calls(w_trace)) = MAX_RETRIES
    /\ \A i \in 1..Len(w_trace) : w_trace[i].ev = "call" => w_trace[i].out \in w_retryable

\* C6: once the retry policy has raised, on a fatal error or on exhaustion of
\* the attempt budget, the last thing it did was the failed invocation: no
\* sleep follows the last failed attempt.
C6_ImmediatePropagation ==
    /\ w_pc = "raised" => Last(w_trace).ev = "call"
    /\ inf_pc = "raised" => Last(inf_trace).ev = "call"

\* The identifiers of all the pages of the portfolio table.
PageUnion == UNION {Range(portfolio_pages[i]) : i \in 1..Len(portfolio_pages)}

\* C7: get_stock_ids issues its first scan without a cursor and every further
\* scan with the cursor the previous one returned, never more scans than there
\* are pages; when it returns it has scanned every page once and returns the
\* identifiers of all the pages, each once.
C7_PaginationComplete ==
    /\ Len(scan_log) <= Len(portfolio_pages)
    /\ \A i \in 1..Len(scan_log) : scan_log[i] = i - 1
    /\ scan_pc = "returned" =>
          /\ Len(scan_log) = Len(portfolio_pages)
          /\ Range(stock_ids) = PageUnion
          /\ Len(stock_ids) = Cardinality(PageUnion)

\* C7 witness: a table of several pages that repeat an identifier was listed.
C7_Witness ==
    /\ scan_pc = "returned"
    /\ Len(portfolio_pages) >= 2
    /\ Len(scan_acc) > Len(stock_ids)
    /\ Len(stock_ids) >= 2

\* C8: when batch_get_stock_data returns on n identifiers it has issued
\* ceil(n / 100) batch reads, each of 1 to 100 keys, whose keys in order are
\* the identifiers in order (for 250: reads of 100, 100 and 50 keys), and the
\* result holds exactly the identifiers that have a record.
C8_BatchPartitioning ==
    batch_pc = "returned" =>
        LET n == Len(batch_ids) IN
        /\ Len(batch_log) = (n + BATCH_SIZE - 1) \div BATCH_SIZE
        /\ \A k \in 1..Len(batch_log) :
              Len(batch_log[k]) >= 1 /\ Len(batch_log[k]) <= BATCH_SIZE
        /\ Flatten(batch_log) = batch_ids
        /\ DOMAIN batch_results = Range(batch_ids) \cap tables[batch_table]
        /\ n = 250 => [k \in 1..3 |-> Len(batch_log[k])] = <<100, 100, 50>>

\* C8 witness: 250 identifiers, some without a record, were read in 3 batches.
C8_Witness ==
    /\ batch_pc = "returned"
    /\ Len(batch_ids) = 250
    /\ Len(batch_log) = 3
    /\ DOMAIN batch_results # {}
    /\ DOMAIN batch_results # Range(batch_ids)

\* The keys of the chunks, in chunk order.
ChunkKeys(chunks) == Flatten([c \in 1..Len(chunks) |->
                        [j \in 1..Len(chunks[c]) |-> chunks[c][j][1]]])

\* C9: chunk_data returns, whatever the mapping (an oversized value makes it
\* neither fail nor exceed the limit), and every chunk it returns serializes
\* to at most CHUNK_SIZE characters.
C9_ChunkSizeBound ==
    chunk_pc = "done" =>
        /\ chunk_result.err = "-"
        /\ \A c \in 1..Len(chunk_result.chunks) :
              Len(json_dumps_dict(chunk_result.chunks[c])) <= CHUNK_SIZE

\* C10: whatever the mapping, the keys of the chunks chunk_data returns, in
\* chunk order, are the keys of the mapping in its order.
C10_ChunkKeysPreserved ==
    chunk_pc = "done" =>
        ChunkKeys(chunk_result.chunks) = [i \in 1..Len(chunk_input) |-> chunk_input[i][1]]

\* The fields a method of the result store requires of its argument.
RequiredOf(op) == IF op = "store_recommendation" THEN recommendation_fields ELSE bias_fields

\* C3: a call of store_recommendation or store_bias_details whose argument
\* lacks one of the required fields (the field is absent or null) raises the
\* validation error and issues no write: no update_item call, no table changed.
C3_ValidationGate ==
    [][LET call == store_last' IN
       (store_last' # NoCall /\ store_last' # store_last
          /\ \E f \in RequiredOf(call.op) : f \notin DOMAIN call.arg \/ call.arg[f] = Null)
       => /\ call.err \in {"Invalid recommendation data", "Invalid bias data"}
          /\ writes' = writes
          /\ rec_table' = rec_table
          /\ bias_table' = bias_table]_vars

\* C3 witness: a reply without confidence_score was refused after an earlier
\* write had succeeded.
C3_Witness ==
    /\ store_last.op = "store_recommendation"
    /\ "confidence_score" \notin DOMAIN store_last.arg
    /\ store_last.err = "Invalid recommendation data"
    /\ Len(writes) = 1

\* update_item was issued on the recommendation record of e.
WriteIssued(e) ==
    \E i \in 1..Len(writes) :
        writes[i].table = "portfolio_recommendation" /\ writes[i].key = e

\* The recommendation record of e was written in this run.
Written(e) == rec_table[e] # NoItem /\ rec_table[e].timestamp > 0

ResultsOf(e) == SelectSeq(results, LAMBDA r : r.stock_id = e)

\* C1: in a run that listed its entities, a step that fails (for one entity B:
\* its oracle call) stops no other: when the run ends it reports its counts,
\* the recommendation of every entity nothing went wrong for has been written,
\* and the failed count is the number of entities something went wrong for
\* (exactly one when only B's oracle call failed).
C1_Isolation ==
    (pc = "done" /\ scan_pc = "returned") =>
        /\ response.statusCode = 200
        /\ \A e \in Range(stock_ids) \ DOMAIN faults : Written(e) /\ WriteIssued(e)
        /\ response.failed = Cardinality(Range(stock_ids) \cap DOMAIN faults)
        /\ response.successful = Cardinality(Range(stock_ids) \ DOMAIN faults)

\* C1 witness: A, B, C processed in this order, only B's oracle call failed,
\* A's and C's recommendations were written and one failure is reported.
C1_Witness ==
    /\ pc = "done"
    /\ stock_ids = <<"A", "B", "C">>
    /\ DOMAIN faults = {"B"} /\ faults["B"] = "oracle"
    /\ Written("A") /\ Written("C")
    /\ response.failed = 1 /\ response.successful = 2

C11_IdempotentUpsert ==
    [][(/\ store_last.op = "store_bias_details" /\ store_last.err = "-"
        /\ store_last'.op = "store_bias_details" /\ store_last'.err = "-"
        /\ store_last'.arg # store_last.arg
        /\ Cardinality(DOMAIN bias_table) = 1
        /\ risk_table' = risk_table)
       => /\ Cardinality(DOMAIN bias_table') = 1
          /\ DOMAIN bias_table' = {store_last'.key}
          /\ \A f \in bias_fields :
                bias_table'[store_last'.key][f] = store_last'.arg[f]]_vars

\* C11 witness: two bias writes were issued and the record is the one the
\* second wrote, the verdict OtherBias.
C11_Witness ==
    /\ Len(writes) = 2
    /\ \A i \in 1..2 : writes[i].table = "portfolio_bias"
    /\ writes[1].key = writes[2].key
    /\ store_last.op = "store_bias_details" /\ store_last.err = "-"
    /\ store_last.arg = OtherBias
    /\ DOMAIN bias_table = {store_last.key}
    /\ bias_table[store_last.key].timestamp = 2
    /\ Cardinality(risk_table) = 2

\* C12: a run ends with the error outcome exactly when get_stock_ids raised;
\* once the entities are listed, whatever fails in the aggregate step or in
\* the per-entity steps, the run ends with the completed outcome, which counts
\* every listed entity and holds one result for each.
C12_RunCompletion ==
    pc = "done" =>
        /\ scan_pc \in {"returned", "raised"}
        /\ scan_pc = "raised" => response = handler_except("ClientError(Scan)")
        /\ scan_pc = "returned" =>
              /\ response.statusCode = 200
              /\ response.total_processed = Len(stock_ids)
              /\ Len(response.results) = Len(stock_ids)
              /\ \A i \in 1..Len(stock_ids) : response.results[i].stock_id = stock_ids[i]
              /\ response.portfolio_analysis # NoValue

\* C12 witness: the aggregate step failed on the token limit, one entity on a
\* reply that is not JSON, another had no earnings record, and the run
\* completed.
C12_Witness ==
    /\ pc = "done" /\ response.statusCode = 200
    /\ response.portfolio_analysis = PortfolioError("RecursionError")
    /\ \E i, j \in 1..Len(results) :
          /\ results[i].error = "JSONDecodeError"
          /\ results[j].error = "Missing data"
    /\ response.successful = 1 /\ response.failed = 2

\* The entities of the run skipped for missing source data.
SkippedResults == SelectSeq(results, LAMBDA r : ~r.success /\ r.error = "Missing data")

\* C13: the completed outcome has a skipped count apart from the failed
\* count: an entity skipped for missing source data is counted as skipped and
\* not as failed, and successful + failed + skipped = total_processed.
C13_SkipAccounting ==
    (pc = "done" /\ response.statusCode = 200) =>
        /\ "skipped" \in DOMAIN response
        /\ response.skipped = Len(SkippedResults)
        /\ response.failed = Len(results) - response.successful - Len(SkippedResults)
        /\ response.successful + response.failed + response.skipped
              = response.total_processed

\* update_item was issued on the bias table.
BiasWriteIssued == \E i \in 1..Len(writes) : writes[i].table = "portfolio_bias"

\* C14: a reply of the oracle that is not JSON ends the call of get_inference
\* at once with the parse error: no sleep and no invocation follows it (a
\* call whose first reply is not JSON made exactly one invocation); and in a
\* run the step whose call ended so issues no write.
C14_MalformedNotRetried ==
    /\ \A i \in 1..Len(inf_trace) :
          inf_trace[i].out = "malformed" =>
              /\ i = Len(inf_trace)
              /\ inf_pc = "raised" /\ inf_err = "JSONDecodeError"
    /\ (inf_trace # <<>> /\ inf_trace[1].out = "malformed") => Len(inf_trace) = 1
    /\ \A i \in 1..Len(results) :
          results[i].error = "JSONDecodeError" =>
              /\ ~results[i].success
              /\ ~WriteIssued(results[i].stock_id)
    /\ portfolio_analysis = PortfolioError("JSONDecodeError") => ~BiasWriteIssued

\* C14 witness: the first reply to a non-empty prompt was not JSON and the
\* call has failed after that one invocation.
C14_Witness ==
    /\ inf_pc = "raised" /\ inf_err = "JSONDecodeError"
    /\ Len(prompt) > 0
    /\ inf_trace = <<CallEv(Len(prompt), "malformed")>>

\* The invocations recorded in the log of the call, in order.
Invocations == Calls(inf_trace)

\* C15: after an invocation that raised the token-limit error, the next
\* invocation of the call sends floor(0.7 * n) symbols, n being the length
\* sent before; the lengths sent never increase; and the prompt in hand is a
\* prefix of the prompt the call was given.
C15_TokenLimitDegradation ==
    /\ \A i \in 1..(Len(Invocations) - 1) :
          /\ Invocations[i + 1].arg <= Invocations[i].arg
          /\ Invocations[i].out = "token_limit" =>
                Invocations[i + 1].arg = (7 * Invocations[i].arg) \div 10
    /\ inf_pc # "idle" => prompt = SamplePrompt(Len(prompt))

\* C16: get_stock_ids fails only when a scan has failed on each of
\* MAX_RETRIES attempts: the scan that raised a throughput or throttling
\* error was retried, with the same cursor, until the attempts were spent.
C16_StorageRetry ==
    scan_pc = "raised" =>
        Cardinality({i \in 1..Len(scan_log) : scan_log[i] = Last(scan_log)}) = MAX_RETRIES

\* C17: every recommendation record in the table has a verdict among BUY,
\* SELL and HOLD and a confidence score from 0 to 100, and every bias record
\* has a bias score from 1 to 10, whatever JSON object was handed to the
\* store.
C17_StoredValueRanges ==
    /\ \A e \in Entities :
          rec_table[e] # NoItem =>
              /\ rec_table[e].recommendation \in {Str("BUY"), Str("SELL"), Str("HOLD")}
              /\ rec_table[e].confidence_score.t = "num"
              /\ rec_table[e].confidence_score.n \in 0..100
    /\ \A u \in DOMAIN bias_table :
          /\ bias_table[u].bias_score.t = "num"
          /\ bias_table[u].bias_score.n \in 1..10

\* C18: over uploads of risk profiles and bias writes of analysis runs, the
\* risk profile table holds at most one record and the bias table at most
\* one, whose key is the owner of that profile, or the sentinel identity
\* while there is no profile.
C18_SingleBiasRecord ==
    /\ Cardinality(risk_table) <= 1
    /\ Cardinality(DOMAIN bias_table) <= 1
    /\ DOMAIN bias_table \subseteq (IF risk_table = {} THEN {default_user} ELSE risk_table)

\* The bias writes issued so far, in order.
BiasWrites == SelectSeq(writes, LAMBDA w : w.table = "portfolio_bias")

\* C19: the risk profile table being unchanged, the notification handler
\* resolves the owner key without failing, to the userId of the profile or,
\* when there is no profile, to the sentinel identity, and reads the bias
\* record under the key store_bias_details wrote it under.
C19_SameIdentifierReadBack ==
    store_last.op = "get_bias_data" =>
        /\ store_last.err = "-"
        /\ risk_table = {} => store_last.key = default_user
        /\ risk_table # {} => store_last.key \in risk_table
        /\ BiasWrites # <<>> => store_last.key = Last(BiasWrites).key
        /\ store_last.arg = get_bias_data(store_last.key)

\* C20: an update of the fundamentals table for a key that has no record
\* there does not succeed (it fails with the precondition error, unless the
\* store refused the call for another reason) and creates no record.
C20_UpsertPrecondition ==
    [][(/\ store_last'.op = "_update_fundamentals_table"
        /\ store_last'.key \notin tables["fundamentals"])
       => /\ store_last'.err \in {"ConditionalCheckFailedException", "ClientError(UpdateItem)"}
          /\ tables'["fundamentals"] = tables["fundamentals"]]_vars

\* C21: in one run the risk profile table is read at most once by the
\* per-entity loop, however many entities are analysed and whether or not
\* the table holds a record.
C21_RiskProfileFetchedOnce == risk_fetches <= 1

\* C22: the data embedded in the bias prompt that process_portfolio hands to
\* get_inference is never longer than CHUNK_SIZE: a longer snapshot has been
\* chunked before the prompt was built.
C22_BiasPromptBounded ==
    (pc = "portfolio_inference" /\ depth = 0 /\ inf_pc = "loop") =>
        \/ DumpChars(prompt[2].json) <= CHUNK_SIZE
        \/ chunk_pc = "done"

\* C23: in every state of a run, an entity has a recommendation record
\* written in this run only if its fundamentals, technicals and earnings
\* records were all there when gathered, the oracle was invoked for it, and
\* the reply it returned has every required field.
C23_WriteOnlyAfterGatherAndReply ==
    \A e \in Entities :
        Written(e) =>
            /\ \A c \in Categories : e \in tables[c]
            /\ e \in invoked
            /\ \E i \in 1..Len(results) :
                  /\ results[i].stock_id = e
                  /\ results[i].success
                  /\ validate_required_fields(results[i].recommendation,
                                              recommendation_fields)
                  /\ rec_table[e].recommendation
                        = results[i].recommendation["recommendation"]

\* a run that ended with records written for two entities while a third was
\* turned away
C23_Witness ==
    /\ pc = "done"
    /\ Written("A") /\ Written("C")
    /\ ~Written("B")

\* C24: in one run update_item on the bias table is called at most once, and a
\* bias record exists only after the oracle was invoked for the portfolio and
\* answered with every required field; when a step of process_portfolio
\* fails, the bias table is left as it was, the aggregate result is the
\* degraded one (success False with the error), and the run still ends with
\* one result for every identifier.
C24_BiasWriteOnceOrDegraded ==
    /\ Len(BiasWrites) <= 1
    /\ DOMAIN bias_table # {} =>
          /\ "portfolio" \in invoked
          /\ "portfolio" \notin DOMAIN faults
          /\ portfolio_analysis # NoValue
          /\ portfolio_analysis.success
          /\ \A f \in bias_fields :
                /\ f \in DOMAIN portfolio_analysis.bias
                /\ portfolio_analysis.bias[f] # Null
          /\ \A u \in DOMAIN bias_table :
                bias_table[u].bias_score = portfolio_analysis.bias["bias_score"]
    /\ "portfolio" \in DOMAIN faults =>
          /\ DOMAIN bias_table = {}
          /\ portfolio_analysis = PortfolioError(portfolio_analysis.error)
          /\ portfolio_analysis.error # "-"
          /\ pc = "done" =>
                /\ response.statusCode = 200
                /\ response.portfolio_analysis = portfolio_analysis
                /\ Len(response.results) = Len(stock_ids)
                /\ \A i \in 1..Len(stock_ids) : response.results[i].stock_id = stock_ids[i]

\* a run whose bias update_item call failed and that went on to analyse all
\* three entities, one of them with success
C24_Witness ==
    /\ pc = "done"
    /\ "portfolio" \in DOMAIN faults /\ faults["portfolio"] = "write"
    /\ Len(BiasWrites) = 1
    /\ Len(response.results) = 3
    /\ response.successful >= 1

\* The update_item calls of this run on the recommendation record of e.
RecommendationWrites(e) ==
    SelectSeq(writes, LAMBDA w : w.table = "portfolio_recommendation" /\ w.key = e)

\* C25: in one run every identifier is processed once, although pages repeat
\* it: never more than one result and one update_item call for an
\* identifier, and a run that ends has one result for each distinct
\* identifier of the pages and no other.
C25_EachIdentifierOnce ==
    /\ \A e \in Entities :
          /\ Len(ResultsOf(e)) <= 1
          /\ Len(RecommendationWrites(e)) <= 1
    /\ (pc = "done" /\ scan_pc = "returned") =>
          /\ Len(response.results) = Cardinality(PageUnion)
          /\ \A e \in PageUnion : Len(ResultsOf(e)) = 1
          /\ \A i \in 1..Len(results) : results[i].stock_id \in PageUnion

\* a run over pages that both hold B ended, with B's record written
C25_Witness ==
    /\ pc = "done" /\ scan_pc = "returned"
    /\ \E i, j \in 1..Len(portfolio_pages) :
          i # j /\ "B" \in Range(portfolio_pages[i]) /\ "B" \in Range(portfolio_pages[j])
    /\ Len(RecommendationWrites("B")) = 1
    /\ Written("B")

Sleeps(tr) == SelectSeq(tr, LAMBDA e : e.ev = "sleep")

\* C26: the operation under retry_with_backoff and the loop of get_inference,
\* with the same classifier and the same outcomes, none a token-limit error,
\* are at the same point after every outcome: as many invocations, the same
\* sleeps in the same order, the same retry count, and both still looping,
\* both returned, or both raised with the same error.
C26_SharedRetryPolicy ==
    /\ w_pc = inf_pc
    /\ w_retry_count = retry_count
    /\ Len(Calls(w_trace)) = Len(Calls(inf_trace))
    /\ Sleeps(w_trace) = Sleeps(inf_trace)
    /\ w_err = inf_err
    /\ w_pc = "returned" <=> inf_value # NoValue

\* both met four retryable errors, slept four times and gave up
C26_Witness ==
    /\ w_pc = "raised" /\ inf_pc = "raised"
    /\ w_err = MaxRetriesExceeded
    /\ Len(Calls(inf_trace)) = MAX_RETRIES
    /\ Len(Sleeps(inf_trace)) = MAX_RETRIES

\* C27: one top-level get_inference call, its truncation re-invocations
\* included, sleeps for a retry at most MAX_RETRIES times, whatever mix of
\* retryable and token-limit errors the oracle raises.
C27_TotalRetriesBounded == Len(Sleeps(inf_trace)) <= MAX_RETRIES

\* C28: when a run completes, total_processed is the number of identifiers
\* listed and the length of the result list, successful and failed add up to
\* it, and successful is the number of recommendation records the run wrote.
C28_CountConservation ==
    (pc = "done" /\ response.statusCode = 200) =>
        /\ response.total_processed = Len(stock_ids)
        /\ response.total_processed = Len(response.results)
        /\ response.successful + response.failed = response.total_processed
        /\ response.successful = Cardinality({e \in Entities : Written(e)})
        /\ response.successful
              = Cardinality({e \in Entities : Len(RecommendationWrites(e)) = 1
                                                /\ ~(e \in DOMAIN faults /\ faults[e] = "write")})

\* a completed run with a record written, an entity skipped and an
\* update_item call that failed
C28_Witness ==
    /\ pc = "done" /\ response.statusCode = 200
    /\ response.successful = 1 /\ response.failed = 2
    /\ \E e \in Entities : e \in DOMAIN faults /\ faults[e] = "write"
    /\ \E e \in Entities : e \in DOMAIN faults /\ faults[e] = "missing"

\* C29: a step of a run changes the recommendation record of an entity only
\* when it is the entity being processed and process_stock ends with success
\* for it, and then it stores a record, never removes one: after a skip or
\* an error the entity's record of an earlier run is as it was, and the
\* records of all other entities are never touched.
C29_RecommendationFrame ==
    [][\A e \in Entities :
          rec_table'[e] # rec_table[e] =>
              /\ pc = "stock_inference"
              /\ stock_ids[idx + 1] = e
              /\ rec_table'[e] # NoItem
              /\ results' = Append(results, Last(results'))
              /\ Last(results').stock_id = e
              /\ Last(results').success]_vars

\* a run ended in which B, which had a record of an earlier run, met an
\* error, while the records of A and C were written
C29_Witness ==
    /\ pc = "done"
    /\ "B" \in DOMAIN faults /\ faults["B"] \in {"oracle", "reply", "write", "read"}
    /\ rec_table["B"] = OldRecommendation
    /\ Written("A") /\ Written("C")

\* The update_item calls of the scheduled handler on a table for a ticker.
TickerWrites(table, ticker) ==
    {i \in 1..Len(writes) : writes[i].table = table /\ writes[i].key = ticker}

\* C30: in scheduled mode a failure while a ticker is updated ends the
\* handler with the error response: no update_item call is made for a later
\* ticker; a response of a completed handler reports failed = 0 and every
\* ticker as successful; and update_item on the fundamentals table is called
\* for a ticker only after the update of its trend record has succeeded.
C30_ScheduledStopsAtFailure ==
    /\ store_last.err # "-" =>
          /\ pc = "done"
          /\ response = [statusCode |-> 500, error |-> store_last.err]
          /\ store_last.key = stock_ids[idx + 1]
          /\ \A j \in (idx + 2)..Len(stock_ids) :
                TickerWrites("technicals", stock_ids[j])
                    \cup TickerWrites("fundamentals", stock_ids[j]) = {}
    /\ (pc = "done" /\ response.statusCode = 200) =>
          /\ response.failed = 0
          /\ response.successful = Len(stock_ids)
          /\ response.total_processed = Len(stock_ids)
          /\ \A j \in 1..Len(stock_ids) :
                stock_ids[j] \in tables["technicals"] \cap tables["fundamentals"]
    /\ \A i \in 1..Len(writes) :
          writes[i].table = "fundamentals" =>
              /\ i > 1
              /\ writes[i - 1] = [table |-> "technicals", key |-> writes[i].key]
              /\ writes[i].key \in tables["technicals"]

\* the first ticker was updated, the update of the second one's fundamentals
\* record failed after its trend record had been written, and the handler
\* ended with a third ticker left
C30_Witness ==
    /\ pc = "done" /\ response.statusCode = 500
    /\ Len(stock_ids) = 3 /\ idx = 1
    /\ store_last.op = "_update_fundamentals_table"
    /\ Len(writes) = 4

====
